---- MODULE Spec2Model ----
(***************************************************************************)
(* PyTimeLapse: one run of main() (src/main.py) driving a camera driver    *)
(* (src/camera.py) and, at the end, the video compilation                  *)
(* (src/video_utils.py).                                                   *)
(*                                                                         *)
(* The program is sequential.  pc is main's position.  The environment     *)
(* decides the outcome of every device / file-system call, and may deliver *)
(* SIGINT (KeyboardInterrupt) while the program is inside a blocking call: *)
(* time.sleep is interrupted at once, a call into cv2 raises               *)
(* KeyboardInterrupt as soon as the call has returned.                     *)
(*                                                                         *)
(* Spec is a run of main().  DriverSpec is the driver on its own: the      *)
(* factory get_camera followed by any sequence of initialize,              *)
(* capture_image and shutdown calls, made of the same driver steps.        *)
(***************************************************************************)
EXTENDS Integers, Sequences, FiniteSets, TLC

\* ------------------------------------------------------------------ bounds
MaxLimit == 2        \* --limit ranges over 0..MaxLimit
MaxCaptures == 3     \* successful captures explored when --limit is 0
MaxFailures == 2     \* capture attempts that raise CameraError, per run
MaxCalls == 4        \* driver calls in a sequence of DriverSpec

VARIABLES
    sys_platform,     \* sys.platform
    interval_ok,      \* args.interval > 0
    limit,            \* args.limit
    compile_video,    \* args.compile_video
    pc,               \* main's position
    current_os,       \* main: current_os
    camera,           \* main: camera ("None", "MacCamera", "PiCamera")
    capture,          \* MacCamera.capture ("None" or "VideoCapture")
    opened,           \* MacCamera.capture.isOpened()
    open_attempts,    \* history: calls of cv2.VideoCapture(index)
    release_calls,    \* history: calls of VideoCapture.release()
    live_handles,     \* history: device handles opened and not yet released
    warmup_log,       \* history: how the warm-up of the last initialize went
    factory_calls,    \* history: the calls of get_camera, with their arguments
    call,             \* the driver call in progress when the driver is used
                      \* outside main (DriverSpec), and its result
    capture_count,    \* main: capture_count
    images_captured,  \* main: images_captured
    image_number,     \* main: image_number
    exc,              \* the exception in flight
    exit_code,        \* the process exit code, -1 while running
    files,            \* image files cv2.imwrite has written
    captured,         \* history: filenames for which capture_image returned True
    capture_calls,    \* history: calls of camera.capture_image
    failures,         \* history: capture attempts that raised CameraError
    last_failed,      \* history: image_number of the attempt that has just raised
                      \*          CameraError, 0 after a success
    sleeps,           \* history: completed time.sleep(args.interval) calls
    shutdown_calls,   \* history: calls of camera.shutdown
    done_runs,        \* history: executions of the summary in the finally block
    reported_total,   \* history: the "Total images captured" printed
    encoder_calls,    \* history: child processes started by subprocess.run
    compile_result,   \* history: return value of compile_video_ffmpeg
    compile_log,      \* history: what the call of compile_video_ffmpeg did
    stop_reason,      \* history: how the session left the guarded region
    snap              \* history: counters at the moment stop_reason was set

vars == <<sys_platform, interval_ok, limit, compile_video, pc, current_os,
          camera, capture, opened, open_attempts, release_calls,
          live_handles, warmup_log, factory_calls, call,
          capture_count, images_captured,
          image_number, exc, exit_code, files, captured, capture_calls,
          failures, last_failed, sleeps, shutdown_calls, done_runs, reported_total,
          encoder_calls, compile_result, compile_log, stop_reason, snap>>

args == <<sys_platform, interval_ok, limit, compile_video>>
driver == <<camera, capture, opened>>
driverHist == <<open_attempts, release_calls, live_handles, warmup_log>>
counters == <<capture_count, images_captured, image_number>>
loopHist == <<captured, capture_calls, failures, last_failed, sleeps>>
endHist == <<done_runs, reported_total, encoder_calls, compile_result,
            compile_log>>

\* ------------------------------------------------------- pure functions

\* sys.platform values are strings of characters
Darwin == <<"d", "a", "r", "w", "i", "n">>
Linux == <<"l", "i", "n", "u", "x">>
Linux2 == <<"l", "i", "n", "u", "x", "2">>
Win32 == <<"w", "i", "n", "3", "2">>
Cygwin == <<"c", "y", "g", "w", "i", "n">>
FreeBsd11 == <<"f", "r", "e", "e", "b", "s", "d", "1", "1">>
Platforms == {Darwin, Linux, Linux2, Win32, Cygwin, FreeBsd11}

\* str.startswith
StartsWith(str, prefix) ==
    /\ Len(str) >= Len(prefix)
    /\ SubSeq(str, 1, Len(prefix)) = prefix

get_operating_systemExactMatch(p) ==
    IF p = Darwin THEN "macos"
    ELSE IF p = Linux THEN "linux"
    ELSE "unsupported"
get_operating_system(p) ==
    IF p = Darwin THEN "macos"
    ELSE IF StartsWith(p, Linux) THEN "linux"
    ELSE "unsupported"

\* the os_type arguments explored for get_camera
OsTypes == {"auto", "macos", "linux", "unsupported", "windows", "darwin"}

\* get_camera(os_type, config) on a host whose sys.platform is p: the class
\* of the driver constructed, or the exception raised
get_cameraAutoFallsBack(os_type, p) ==
    LET resolved == IF os_type = "auto"
                      THEN IF p = Darwin THEN "macos" ELSE "linux"
                      ELSE os_type
    IN  IF resolved = "macos" THEN "MacCamera"
        ELSE IF resolved = "linux" THEN "PiCamera"
        ELSE "ValueError"
get_camera(os_type, p) ==
    LET resolved == IF os_type = "auto"
                      THEN IF p = Darwin THEN "macos"
                           ELSE IF StartsWith(p, Linux) THEN "linux"
                           ELSE "CameraError"
                      ELSE os_type
    IN  IF resolved = "CameraError" THEN "CameraError"
        ELSE IF resolved = "macos" THEN "MacCamera"
        ELSE IF resolved = "linux" THEN "PiCamera"
        ELSE "ValueError"

\* the value of `call` while the driver is only used by main
NoBefore == [life |-> "unopened", files |-> {}, captured |-> <<>>,
             release_calls |-> 0, live_handles |-> 0, capture |-> "None",
             opened |-> FALSE]
NoCall == [op |-> "none", life |-> "unopened", done |-> TRUE, calls |-> 0,
           result |-> "none", before |-> NoBefore]

\* f"{n:05d}": the decimal digits of n, left-padded with zeros to width 5
DigitChars == <<"0", "1", "2", "3", "4", "5", "6", "7", "8", "9">>

RECURSIVE Digits(_)
Digits(n) ==
    IF n < 10 THEN <<DigitChars[n + 1]>>
    ELSE Append(Digits(n \div 10), DigitChars[(n % 10) + 1])

RECURSIVE ZeroPad(_, _)
ZeroPad(s, w) == IF Len(s) >= w THEN s ELSE ZeroPad(<<"0">> \o s, w)

Format05d(n) == ZeroPad(Digits(n), 5)

\* f"image_{image_number:05d}.jpg"
Filename(n) == <<"image_">> \o Format05d(n) \o <<".jpg">>

\* args.limit > 0 and capture_count >= args.limit
LimitReachedOffByOne(l, count) == l > 0 /\ count > l
LimitReachedNoGuard(l, count) == count >= l
LimitReached(l, count) == l > 0 /\ count >= l

\* image_number = capture_count + 1
NextImageNumberSkips(count) == count + 2
NextImageNumber(count) == count + 1

\* capture_count after capture_image has returned `success`
CountAfterReturn(success, count) == IF success THEN count + 1 ELSE count

\* images_captured after capture_image has returned `success`
ImagesAfterReturn(success, n) == IF success THEN n + 1 ELSE n

\* capture_count after capture_image has raised CameraError
CountAfterCameraErrorAdvances(count) == count + 1
CountAfterCameraError(count) == count

\* if args.compile_video and images_captured > 0
ShouldCompileIgnoresCount(cv, n) == cv
ShouldCompileOnlyOnLimit(cv, n) == cv /\ n > 0 /\ stop_reason = "limit"
ShouldCompile(cv, n) == cv /\ n > 0

\* what the except clauses of main's outer try leave in flight
AfterHandlersCameraErrorSwallowed(e) ==
    IF e = "SystemExit" THEN "SystemExit" ELSE "none"
AfterHandlersInterruptExits(e) ==
    CASE e \in {"CameraError", "KeyboardInterrupt"} -> "SystemExit"
      [] e = "Exception" -> "none"
      [] OTHER -> e
AfterHandlers(e) ==
    CASE e = "CameraError" -> "SystemExit"          \* sys.exit(1)
      [] e = "KeyboardInterrupt" -> "none"
      [] e = "Exception" -> "none"
      [] OTHER -> e                                  \* SystemExit is not caught

\* the exit status of the interpreter once main is left
ExitStatus(e) == IF e = "SystemExit" THEN 1 ELSE 0

Snapshot == [count |-> capture_count, captured |-> captured,
             calls |-> capture_calls, files |-> files]

\* ------------------------------------------------- src/video_utils.py

\* shutil.which("ffmpeg"): a path, or None
WhichResults == {"None", "/usr/bin/ffmpeg"}

\* check_ffmpeg(): shutil.which("ffmpeg") is not None
check_ffmpeg(which) == which # "None"

\* subprocess.run(command, check=False): the child exits with a return code,
\* or the call raises before a child exists
RunOutcomes == {"exit_zero", "exit_nonzero", "FileNotFoundError", "Exception"}

\* compile_video_ffmpeg(image_folder, image_pattern, output_filename, fps),
\* given what the environment answers: ret is the returned value, made_dir
\* whether os.makedirs created the directory of the video, started whether a
\* child process ran, output whether the encoder completed the video file
compile_video_ffmpegMakesDirFirst(which, dir_exists, makedirs_ok, run) ==
    IF ~dir_exists /\ ~makedirs_ok
      THEN [ret |-> FALSE, made_dir |-> FALSE, started |-> FALSE,
            returncode |-> -1, output |-> FALSE]
    ELSE IF ~check_ffmpeg(which)
      THEN [ret |-> FALSE, made_dir |-> ~dir_exists, started |-> FALSE,
            returncode |-> -1, output |-> FALSE]
    ELSE IF run \in {"exit_zero", "exit_nonzero"}
      THEN [ret |-> (run = "exit_zero"), made_dir |-> ~dir_exists,
            started |-> TRUE,
            returncode |-> IF run = "exit_zero" THEN 0 ELSE 1,
            output |-> (run = "exit_zero")]
    ELSE [ret |-> FALSE, made_dir |-> ~dir_exists, started |-> FALSE,
          returncode |-> -1, output |-> FALSE]
compile_video_ffmpegIgnoresReturnCode(which, dir_exists, makedirs_ok, run) ==
    IF ~check_ffmpeg(which)
      THEN [ret |-> FALSE, made_dir |-> FALSE, started |-> FALSE,
            returncode |-> -1, output |-> FALSE]
    ELSE IF ~dir_exists /\ ~makedirs_ok
      THEN [ret |-> FALSE, made_dir |-> FALSE, started |-> FALSE,
            returncode |-> -1, output |-> FALSE]
    ELSE IF run \in {"exit_zero", "exit_nonzero"}
      THEN [ret |-> TRUE, made_dir |-> ~dir_exists, started |-> TRUE,
            returncode |-> IF run = "exit_zero" THEN 0 ELSE 1,
            output |-> (run = "exit_zero")]
    ELSE [ret |-> FALSE, made_dir |-> ~dir_exists, started |-> FALSE,
          returncode |-> -1, output |-> FALSE]
compile_video_ffmpeg(which, dir_exists, makedirs_ok, run) ==
    IF ~check_ffmpeg(which)
      THEN [ret |-> FALSE, made_dir |-> FALSE, started |-> FALSE,
            returncode |-> -1, output |-> FALSE]
    ELSE IF ~dir_exists /\ ~makedirs_ok
      THEN \* except OSError: return False
           [ret |-> FALSE, made_dir |-> FALSE, started |-> FALSE,
            returncode |-> -1, output |-> FALSE]
    ELSE IF run \in {"exit_zero", "exit_nonzero"}
      THEN \* if result.returncode != 0: return False, else: return True
           [ret |-> (run = "exit_zero"), made_dir |-> ~dir_exists,
            started |-> TRUE,
            returncode |-> IF run = "exit_zero" THEN 0 ELSE 1,
            output |-> (run = "exit_zero")]
    ELSE \* except FileNotFoundError / except Exception: return False
         [ret |-> FALSE, made_dir |-> ~dir_exists, started |-> FALSE,
          returncode |-> -1, output |-> FALSE]

\* main calls compile_video_ffmpeg as a statement: the value is dropped
ExcAfterCompileFailureExits(ret, e) == IF ret THEN e ELSE "SystemExit"
ExcAfterCompile(ret, e) == e

\* compile_log before any call
NotCompiled == [called |-> FALSE]

\* ------------------------------------------------------------------ Init

\* nothing has run yet: no driver, no image, no exception
Fresh ==
    /\ camera = "None"
    /\ capture = "None"
    /\ opened = FALSE
    /\ open_attempts = 0
    /\ release_calls = 0
    /\ live_handles = 0
    /\ warmup_log = "none"
    /\ factory_calls = <<>>
    /\ call = NoCall
    /\ capture_count = 0
    /\ images_captured = 0
    /\ image_number = 0
    /\ exc = "none"
    /\ exit_code = -1
    /\ files = {}
    /\ captured = <<>>
    /\ capture_calls = 0
    /\ failures = 0
    /\ last_failed = 0
    /\ sleeps = 0
    /\ shutdown_calls = 0
    /\ done_runs = 0
    /\ reported_total = -1
    /\ encoder_calls = 0
    /\ compile_result = "none"
    /\ compile_log = NotCompiled
    /\ stop_reason = "none"
    /\ snap = [count |-> 0, captured |-> <<>>, calls |-> 0, files |-> {}]

Init ==
    /\ sys_platform \in Platforms
    /\ interval_ok \in BOOLEAN
    /\ limit \in 0..MaxLimit
    /\ compile_video \in BOOLEAN
    /\ pc = "validate"
    /\ current_os = "unset"
    /\ Fresh

\* ------------------------------------------------------------ pre-flight

\* if args.interval <= 0: sys.exit(1)
ValidateInterval ==
    /\ pc = "validate"
    /\ IF interval_ok
         THEN pc' = "detect" /\ exit_code' = exit_code
         ELSE pc' = "exited" /\ exit_code' = 1
    /\ UNCHANGED <<args, call, factory_calls, current_os, driverHist, driver, counters, exc, files, loopHist,
                   shutdown_calls, endHist, stop_reason, snap>>

\* current_os = get_operating_system(); unsupported: sys.exit(1)
DetectPlatform ==
    /\ pc = "detect"
    /\ current_os' = get_operating_system(sys_platform)
    /\ IF current_os' = "unsupported"
         THEN pc' = "exited" /\ exit_code' = 1
         ELSE pc' = "makedirs" /\ exit_code' = exit_code
    /\ UNCHANGED <<args, call, factory_calls, driver, driverHist, counters, exc, files, loopHist,
                   shutdown_calls, endHist, stop_reason, snap>>

\* os.makedirs(args.output, exist_ok=True); OSError: sys.exit(1)
EnsureOutputDirGoesOn ==
    /\ pc = "makedirs"
    /\ \E ok \in BOOLEAN :
         IF ok
           THEN /\ pc' = "get_camera"
                /\ UNCHANGED <<exc, stop_reason, snap>>
           ELSE /\ pc' = "get_camera"
                /\ stop_reason' = "makedirs_error"
                /\ snap' = Snapshot
                /\ UNCHANGED exc
    /\ UNCHANGED <<args, call, factory_calls, current_os, driverHist, driver,
                   counters, exit_code, files, loopHist, shutdown_calls,
                   endHist>>
EnsureOutputDir ==
    /\ pc = "makedirs"
    /\ \E ok \in BOOLEAN :
         IF ok
           THEN /\ pc' = "get_camera"
                /\ UNCHANGED <<exc, stop_reason, snap>>
           ELSE /\ pc' = "handlers"
                /\ exc' = "SystemExit"
                /\ stop_reason' = "makedirs_error"
                /\ snap' = Snapshot
    /\ UNCHANGED <<args, call, factory_calls, current_os, driverHist, driver, counters, exit_code, files,
                   loopHist, shutdown_calls, endHist>>

\* the driver get_camera returned is bound / the exception it raised is in
\* flight
FactoryReturned(c) ==
    IF c \in {"ValueError", "CameraError"}
      THEN /\ exc' = IF c = "ValueError" THEN "Exception" ELSE "CameraError"
           /\ stop_reason' = IF c = "ValueError" THEN "unexpected"
                                                 ELSE "factory_error"
           /\ snap' = Snapshot
           /\ UNCHANGED camera
      ELSE /\ camera' = c
           /\ UNCHANGED <<exc, stop_reason, snap>>

\* camera = get_camera(os_type=current_os, config={}); with camera: __enter__
GetCamera ==
    /\ pc = "get_camera"
    /\ factory_calls' = Append(factory_calls,
                               [os_type |-> current_os, config |-> "{}"])
    /\ LET c == get_camera(current_os, sys_platform) IN
         /\ FactoryReturned(c)
         /\ pc' = CASE c = "MacCamera" -> "init_open1"
                    [] c = "PiCamera" -> "init_pi"
                    [] OTHER -> "handlers"
    /\ UNCHANGED <<args, call, current_os, driverHist, capture, opened,
                   counters, exit_code, files, loopHist, shutdown_calls,
                   endHist>>

\* -------------------------------------------------- MacCamera.initialize

\* __enter__ raised: __exit__ is not called, the exception reaches main's
\* except clauses directly
EnterRaised(e, reason) ==
    /\ pc' = "handlers"
    /\ exc' = e
    /\ stop_reason' = reason
    /\ snap' = Snapshot

\* __enter__ returned: the body of the with statement starts, capture_count = 0
EnterReturned ==
    /\ pc' = "loop_top"
    /\ capture_count' = 0
    /\ UNCHANGED <<exc, stop_reason, snap>>

\* self.capture = cv2.VideoCapture(index); if not self.capture.isOpened(): ...
InitOpenFirst ==
    /\ pc = "init_open1"
    /\ open_attempts' = open_attempts + 1
    /\ UNCHANGED warmup_log
    /\ \E outcome \in {"opened", "not_opened", "raises"} :
         CASE outcome = "opened" ->
                /\ capture' = "VideoCapture" /\ opened' = TRUE
                /\ live_handles' = live_handles + 1
                /\ pc' = "init_warmup"
                /\ UNCHANGED <<release_calls, capture_count, exc, stop_reason,
                               snap>>
           [] outcome = "not_opened" ->
                /\ capture' = "VideoCapture" /\ opened' = FALSE
                /\ UNCHANGED <<release_calls, live_handles>>
                /\ pc' = "init_backoff"
                /\ UNCHANGED <<capture_count, exc, stop_reason, snap>>
           [] outcome = "raises" ->
                \* except Exception: self.capture still is what it was before
                \* the call (None in main); if self.capture: release()
                /\ release_calls' = IF capture # "None"
                                      THEN release_calls + 1
                                      ELSE release_calls
                /\ capture' = "None" /\ opened' = FALSE
                /\ UNCHANGED live_handles
                /\ EnterRaised("CameraError", "init_error")
                /\ UNCHANGED capture_count
    /\ UNCHANGED <<args, call, factory_calls, current_os, camera, images_captured, image_number,
                   exit_code, files, loopHist, shutdown_calls, endHist>>

\* time.sleep(0.5) before the retry
InitBackoff ==
    /\ pc = "init_backoff"
    /\ UNCHANGED driverHist
    /\ \E interrupted \in BOOLEAN :
         IF interrupted
           THEN \* KeyboardInterrupt is not an Exception: no clean-up
                /\ EnterRaised("KeyboardInterrupt", "init_interrupt")
           ELSE /\ pc' = "init_open2"
                /\ UNCHANGED <<exc, stop_reason, snap>>
    /\ UNCHANGED <<args, call, factory_calls, current_os, driver, counters, exit_code, files,
                   loopHist, shutdown_calls, endHist>>

\* self.capture.release(); self.capture = cv2.VideoCapture(index); second check
InitOpenSecondNoCleanUp ==
    /\ pc = "init_open2"
    /\ open_attempts' = open_attempts + 1
    /\ UNCHANGED warmup_log
    /\ \E outcome \in {"opened", "not_opened", "raises"} :
         IF outcome = "opened"
           THEN /\ capture' = "VideoCapture" /\ opened' = TRUE
                /\ release_calls' = release_calls + 1
                /\ live_handles' = live_handles + 1
                /\ pc' = "init_warmup"
                /\ UNCHANGED <<capture_count, exc, stop_reason, snap>>
           ELSE \* raise CameraError / cv2 raised: except Exception releases
                \* the object self.capture holds once more
                /\ capture' = "VideoCapture" /\ opened' = FALSE
                /\ release_calls' = release_calls + 1
                /\ UNCHANGED live_handles
                /\ EnterRaised("CameraError", "init_error")
                /\ UNCHANGED capture_count
    /\ UNCHANGED <<args, call, factory_calls, current_os, camera, images_captured, image_number,
                   exit_code, files, loopHist, shutdown_calls, endHist>>
InitOpenSecond ==
    /\ pc = "init_open2"
    /\ open_attempts' = open_attempts + 1
    /\ UNCHANGED warmup_log
    /\ \E outcome \in {"opened", "not_opened", "raises"} :
         IF outcome = "opened"
           THEN /\ capture' = "VideoCapture" /\ opened' = TRUE
                /\ release_calls' = release_calls + 1
                /\ live_handles' = live_handles + 1
                /\ pc' = "init_warmup"
                /\ UNCHANGED <<capture_count, exc, stop_reason, snap>>
           ELSE \* raise CameraError / cv2 raised: except Exception releases
                \* the object self.capture holds once more
                /\ capture' = "None" /\ opened' = FALSE
                /\ release_calls' = release_calls + 2
                /\ UNCHANGED live_handles
                /\ EnterRaised("CameraError", "init_error")
                /\ UNCHANGED capture_count
    /\ UNCHANGED <<args, call, factory_calls, current_os, camera, images_captured, image_number,
                   exit_code, files, loopHist, shutdown_calls, endHist>>

\* the warm-up loop: self.capture.read() and time.sleep(0.01) for 2 seconds
InitWarmUp ==
    /\ pc = "init_warmup"
    /\ UNCHANGED open_attempts
    /\ \E outcome \in {"frames_read", "frame_drop", "raises", "interrupted"} :
         /\ warmup_log' = outcome
         /\ CASE outcome \in {"frames_read", "frame_drop"} ->
                /\ EnterReturned
                /\ UNCHANGED <<capture, opened, release_calls, live_handles>>
           [] outcome = "raises" ->
                /\ capture' = "None" /\ opened' = FALSE
                /\ release_calls' = release_calls + 1
                /\ live_handles' = live_handles - 1
                /\ EnterRaised("CameraError", "init_error")
                /\ UNCHANGED capture_count
           [] outcome = "interrupted" ->
                \* the handle stays open: no except clause matches
                /\ EnterRaised("KeyboardInterrupt", "init_interrupt")
                /\ UNCHANGED <<capture, opened, release_calls, live_handles,
                               capture_count>>
    /\ UNCHANGED <<args, call, factory_calls, current_os, camera, images_captured, image_number,
                   exit_code, files, loopHist, shutdown_calls, endHist>>

\* PiCamera.initialize: a placeholder that returns True
InitializePi ==
    /\ pc = "init_pi"
    /\ EnterReturned
    /\ UNCHANGED <<args, call, factory_calls, current_os, driverHist, driver, images_captured, image_number,
                   exit_code, files, loopHist, shutdown_calls, endHist>>

\* ------------------------------------------------------ the capture loop

\* the body of the with statement is left (break or exception): __exit__ next
LeaveBodySkipsShutdown(e, reason) ==
    /\ pc' = IF e = "none" THEN "finally" ELSE "handlers"
    /\ exc' = e
    /\ stop_reason' = reason
    /\ snap' = Snapshot
LeaveBody(e, reason) ==
    /\ pc' = "with_exit"
    /\ exc' = e
    /\ stop_reason' = reason
    /\ snap' = Snapshot

\* while True: if limit reached: break; image_number = capture_count + 1
LoopTop ==
    /\ pc = "loop_top"
    /\ IF LimitReached(limit, capture_count)
         THEN /\ LeaveBody("none", "limit")
              /\ UNCHANGED image_number
         ELSE /\ limit > 0 \/ capture_count < MaxCaptures
              /\ image_number' = NextImageNumber(capture_count)
              /\ pc' = "capture"
              /\ UNCHANGED <<exc, stop_reason, snap>>
    /\ UNCHANGED <<args, call, factory_calls, current_os, driverHist, driver, capture_count, images_captured,
                   exit_code, files, loopHist, shutdown_calls, endHist>>

\* capture_image returned True: if success: capture_count += 1; images_captured += 1
CaptureReturnedTrue ==
    /\ capture_count' = CountAfterReturn(TRUE, capture_count)
    /\ images_captured' = ImagesAfterReturn(TRUE, images_captured)
    /\ captured' = Append(captured, Filename(image_number))
    /\ last_failed' = 0
    /\ pc' = "limit_check"
    /\ UNCHANGED <<exc, stop_reason, snap, failures>>

\* capture_image raised CameraError: except CameraError ... time.sleep, continue
CaptureRaisedCameraError ==
    /\ failures < MaxFailures
    /\ failures' = failures + 1
    /\ last_failed' = image_number
    /\ capture_count' = CountAfterCameraError(capture_count)
    /\ pc' = "retry_sleep"
    /\ UNCHANGED <<images_captured, captured, exc, stop_reason, snap>>

\* if not self.capture or not self.capture.isOpened(): raise CameraError
NotReadyNeverChecked(c, o) == FALSE
NotReady(c, o) == c = "None" \/ ~o

\* MacCamera.capture_image up to the frame read
MacCaptureRead ==
    /\ pc = "capture"
    /\ camera = "MacCamera"
    /\ capture_calls' = capture_calls + 1
    /\ IF NotReady(capture, opened)
         THEN CaptureRaisedCameraError
         ELSE \E outcome \in {"frame", "no_frame", "raises", "interrupted"} :
           CASE outcome = "frame" ->
                  /\ pc' = "write"
                  /\ UNCHANGED <<capture_count, images_captured, captured,
                                 failures, last_failed, exc, stop_reason,
                                 snap>>
             [] outcome = "no_frame" -> CaptureRaisedCameraError
             [] outcome = "raises" ->
                  \* self.capture.read() is outside every try of capture_image
                  /\ LeaveBody("Exception", "unexpected")
                  /\ UNCHANGED <<capture_count, images_captured, captured,
                                 failures, last_failed>>
             [] outcome = "interrupted" ->
                  /\ LeaveBody("KeyboardInterrupt", "capture_interrupt")
                  /\ UNCHANGED <<capture_count, images_captured, captured,
                                 failures, last_failed>>
    /\ UNCHANGED <<args, call, factory_calls, current_os, driverHist, driver, image_number, exit_code, files,
                   sleeps, shutdown_calls, endHist>>

\* MacCamera.capture_image from os.makedirs / cv2.imwrite to its return
MacCaptureWriteInterruptCounts ==
    /\ pc = "write"
    /\ \E outcome \in {"written", "write_failed", "interrupted"} :
         CASE outcome = "written" ->
                /\ files' = files \cup {Filename(image_number)}
                /\ CaptureReturnedTrue
           [] outcome = "write_failed" ->
                /\ CaptureRaisedCameraError
                /\ UNCHANGED files
           [] outcome = "interrupted" ->
                \* cv2.imwrite has returned, KeyboardInterrupt is raised then
                /\ files' = files \cup {Filename(image_number)}
                /\ LeaveBody("KeyboardInterrupt", "capture_interrupt")
                /\ capture_count' = capture_count + 1
                /\ images_captured' = images_captured + 1
                /\ captured' = Append(captured, Filename(image_number))
                /\ UNCHANGED <<failures, last_failed>>
    /\ UNCHANGED <<args, call, factory_calls, current_os, driverHist, driver, image_number, exit_code,
                   capture_calls, sleeps, shutdown_calls, endHist>>
MacCaptureWrite ==
    /\ pc = "write"
    /\ \E outcome \in {"written", "write_failed", "interrupted"} :
         CASE outcome = "written" ->
                /\ files' = files \cup {Filename(image_number)}
                /\ CaptureReturnedTrue
           [] outcome = "write_failed" ->
                /\ CaptureRaisedCameraError
                /\ UNCHANGED files
           [] outcome = "interrupted" ->
                \* cv2.imwrite has returned, KeyboardInterrupt is raised then
                /\ files' = files \cup {Filename(image_number)}
                /\ LeaveBody("KeyboardInterrupt", "capture_interrupt")
                /\ UNCHANGED <<capture_count, images_captured, captured,
                               failures, last_failed>>
    /\ UNCHANGED <<args, call, factory_calls, current_os, driverHist, driver, image_number, exit_code,
                   capture_calls, sleeps, shutdown_calls, endHist>>

\* PiCamera.capture_image: a placeholder that returns True
PiCaptureImage ==
    /\ pc = "capture"
    /\ camera = "PiCamera"
    /\ capture_calls' = capture_calls + 1
    /\ CaptureReturnedTrue
    /\ UNCHANGED <<args, call, factory_calls, current_os, driverHist, driver, image_number, exit_code, files,
                   sleeps, shutdown_calls, endHist>>

\* after the attempt: if limit reached: break
LimitCheck ==
    /\ pc = "limit_check"
    /\ IF LimitReached(limit, capture_count)
         THEN LeaveBody("none", "limit")
         ELSE pc' = "sleep" /\ UNCHANGED <<exc, stop_reason, snap>>
    /\ UNCHANGED <<args, call, factory_calls, current_os, driverHist, driver, counters, exit_code, files,
                   loopHist, shutdown_calls, endHist>>

\* try: time.sleep(args.interval)
Sleep ==
    /\ pc = "sleep"
    /\ sleeps' = sleeps + 1
    /\ pc' = "loop_top"
    /\ UNCHANGED <<args, call, factory_calls, current_os, driverHist, driver, counters, exc, exit_code, files,
                   captured, capture_calls, failures, last_failed,
                   shutdown_calls, endHist, stop_reason, snap>>

\* except KeyboardInterrupt: break
SleepInterruptedContinues ==
    /\ pc = "sleep"
    /\ pc' = "loop_top"
    /\ stop_reason' = "sleep_interrupt"
    /\ snap' = Snapshot
    /\ UNCHANGED <<args, call, factory_calls, current_os, driverHist, driver, counters, exc, exit_code, files,
                   loopHist, shutdown_calls, endHist>>
SleepInterrupted ==
    /\ pc = "sleep"
    /\ LeaveBody("none", "sleep_interrupt")
    /\ UNCHANGED <<args, call, factory_calls, current_os, driverHist, driver, counters, exit_code, files,
                   loopHist, shutdown_calls, endHist>>

\* the time.sleep(args.interval) of the except CameraError clause; continue
RetrySleepGivesUp ==
    /\ pc = "retry_sleep"
    /\ sleeps' = sleeps + 1
    /\ pc' = "with_exit"
    /\ stop_reason' = "retries_exhausted"
    /\ snap' = Snapshot
    /\ UNCHANGED <<args, call, factory_calls, current_os, driverHist, driver, counters, exc, exit_code, files,
                   captured, capture_calls, failures, last_failed,
                   shutdown_calls, endHist>>
RetrySleep ==
    /\ pc = "retry_sleep"
    /\ sleeps' = sleeps + 1
    /\ pc' = "loop_top"
    /\ UNCHANGED <<args, call, factory_calls, current_os, driverHist, driver, counters, exc, exit_code, files,
                   captured, capture_calls, failures, last_failed,
                   shutdown_calls, endHist, stop_reason, snap>>

\* KeyboardInterrupt in that sleep: no clause of the inner try catches it
RetrySleepInterrupted ==
    /\ pc = "retry_sleep"
    /\ LeaveBody("KeyboardInterrupt", "retry_sleep_interrupt")
    /\ UNCHANGED <<args, call, factory_calls, current_os, driverHist, driver, counters, exit_code, files,
                   loopHist, shutdown_calls, endHist>>

\* ------------------------------------------------------------ the way out

\* MacCamera.shutdown: if self.capture and self.capture.isOpened(): release()
ShutdownReleases(kind, c, o) == kind = "MacCamera" /\ c # "None" /\ o

\* MacCamera.shutdown: self.capture = None / PiCamera.shutdown: nothing
ShutdownCaptureKeepsHandle(kind, c) == c
ShutdownCapture(kind, c) == IF kind = "MacCamera" THEN "None" ELSE c

\* CameraBase.__exit__: self.shutdown(); returns None, so exc is re-raised
WithExit ==
    /\ pc = "with_exit"
    /\ shutdown_calls' = shutdown_calls + 1
    /\ release_calls' = IF ShutdownReleases(camera, capture, opened)
                          THEN release_calls + 1 ELSE release_calls
    /\ live_handles' = IF ShutdownReleases(camera, capture, opened)
                         THEN live_handles - 1 ELSE live_handles
    /\ capture' = ShutdownCapture(camera, capture)
    /\ opened' = FALSE
    /\ pc' = IF exc = "none" THEN "finally" ELSE "handlers"
    /\ UNCHANGED <<args, call, factory_calls, current_os, open_attempts, warmup_log, camera, counters, exc,
                   exit_code, files,
                   loopHist, endHist, stop_reason, snap>>

\* except CameraError: sys.exit(1) / except KeyboardInterrupt / except Exception
Handlers ==
    /\ pc = "handlers"
    /\ exc' = AfterHandlers(exc)
    /\ pc' = "finally"
    /\ UNCHANGED <<args, call, factory_calls, current_os, driverHist, driver, counters, exit_code, files,
                   loopHist, shutdown_calls, endHist, stop_reason, snap>>

\* finally: print the summary, then decide on the video
FinallySkippedOnExit ==
    /\ pc = "finally"
    /\ IF exc = "SystemExit"
         THEN pc' = "exit" /\ UNCHANGED <<done_runs, reported_total>>
         ELSE /\ done_runs' = done_runs + 1
              /\ reported_total' = images_captured
              /\ pc' = IF ShouldCompile(compile_video, images_captured)
                         THEN "compile" ELSE "exit"
    /\ UNCHANGED <<args, call, factory_calls, current_os, driverHist, driver, counters, exc, exit_code, files,
                   loopHist, shutdown_calls, encoder_calls, compile_result,
                   compile_log, stop_reason, snap>>
Finally ==
    /\ pc = "finally"
    /\ done_runs' = done_runs + 1
    /\ reported_total' = images_captured
    /\ pc' = IF ShouldCompile(compile_video, images_captured)
               THEN "compile" ELSE "exit"
    /\ UNCHANGED <<args, call, factory_calls, current_os, driverHist, driver, counters, exc, exit_code, files,
                   loopHist, shutdown_calls, encoder_calls, compile_result,
                   compile_log, stop_reason, snap>>

\* compile_video_ffmpeg(image_folder=args.output, ...) in the finally block
CompileVideo ==
    /\ pc = "compile"
    /\ \E which \in WhichResults, dir_exists \in BOOLEAN,
          makedirs_ok \in BOOLEAN, run \in RunOutcomes :
         LET r == compile_video_ffmpeg(which, dir_exists, makedirs_ok, run) IN
           /\ compile_result' = IF r.ret THEN "True" ELSE "False"
           /\ encoder_calls' = IF r.started THEN encoder_calls + 1
                                            ELSE encoder_calls
           /\ compile_log' = [called |-> TRUE, which |-> which,
                              dir_exists |-> dir_exists, run |-> run,
                              made_dir |-> r.made_dir, started |-> r.started,
                              returncode |-> r.returncode,
                              output |-> r.output, before |-> Snapshot]
           /\ exc' = ExcAfterCompile(r.ret, exc)
    /\ pc' = "exit"
    /\ UNCHANGED <<args, call, factory_calls, current_os, driverHist, driver, counters, exit_code,
                   files, loopHist, shutdown_calls, done_runs, reported_total,
                   stop_reason, snap>>

\* main is left: by return, or by the SystemExit in flight
Exit ==
    /\ pc = "exit"
    /\ exit_code' = ExitStatus(exc)
    /\ pc' = "exited"
    /\ UNCHANGED <<args, call, factory_calls, current_os, driverHist, driver, counters, exc, files, loopHist,
                   shutdown_calls, endHist, stop_reason, snap>>

Next ==
    \/ ValidateInterval
    \/ DetectPlatform
    \/ EnsureOutputDir
    \/ GetCamera
    \/ InitOpenFirst
    \/ InitBackoff
    \/ InitOpenSecond
    \/ InitWarmUp
    \/ InitializePi
    \/ LoopTop
    \/ MacCaptureRead
    \/ MacCaptureWrite
    \/ PiCaptureImage
    \/ LimitCheck
    \/ Sleep
    \/ SleepInterrupted
    \/ RetrySleep
    \/ RetrySleepInterrupted
    \/ WithExit
    \/ Handlers
    \/ Finally
    \/ CompileVideo
    \/ Exit

Spec == Init /\ [][Next]_vars

\* main is one thread of control that keeps running until it is left: a step
\* that can be taken is taken
FairSpec == Spec /\ WF_vars(Next)

\* --------------------------------------------- the driver on its own

\* get_camera(os_type, config): os_type is any identifier, on any host
DriverInit ==
    /\ sys_platform \in Platforms
    /\ current_os \in OsTypes
    /\ interval_ok = TRUE
    /\ limit = 0
    /\ compile_video = FALSE
    /\ pc = "factory"
    /\ Fresh

\* camera = get_camera(os_type); a raised ValueError / CameraError ends the use
FactoryCall ==
    /\ pc = "factory"
    /\ factory_calls' = Append(factory_calls,
                               [os_type |-> current_os, config |-> "{}"])
    /\ LET c == get_camera(current_os, sys_platform) IN
         /\ FactoryReturned(c)
         /\ pc' = IF c \in {"MacCamera", "PiCamera"} THEN "idle"
                                                     ELSE "factory_failed"
         /\ call' = [NoCall EXCEPT !.op = "get_camera", !.result = c]
    /\ UNCHANGED <<args, current_os, driverHist, capture, opened, counters,
                   exit_code, files, loopHist, shutdown_calls, endHist>>

\* the caller starts camera.initialize(), camera.capture_image(filepath) or
\* camera.shutdown(); initialize is called on a driver that holds no open
\* handle (the lifecycle has no step from ready to ready)
DriverCall ==
    /\ pc = "idle"
    /\ call.calls < MaxCalls
    /\ \E op \in {"initialize", "capture_image", "shutdown"} :
         /\ op = "initialize" => NotReady(capture, opened)
         /\ call' = [op |-> op, life |-> call.life, done |-> FALSE,
                     calls |-> call.calls + 1, result |-> "none",
                     before |-> [life |-> call.life, files |-> files,
                                 captured |-> captured,
                                 release_calls |-> release_calls,
                                 live_handles |-> live_handles,
                                 capture |-> capture, opened |-> opened]]
         /\ pc' = CASE op = "initialize" ->
                         IF camera = "MacCamera" THEN "init_open1"
                                                 ELSE "init_pi"
                    [] op = "capture_image" -> "capture"
                    [] op = "shutdown" -> "with_exit"
         /\ image_number' = IF op = "capture_image"
                              THEN NextImageNumber(capture_count)
                              ELSE image_number
    /\ exc' = "none"
    /\ UNCHANGED <<args, factory_calls, current_os, driver, driverHist,
                   capture_count, images_captured, exit_code, files, loopHist,
                   shutdown_calls, endHist, stop_reason, snap>>

\* shutdown(), as __exit__ runs it
DriverShutdown ==
    /\ call.op = "shutdown"
    /\ ~call.done
    /\ WithExit

\* what the call in progress gave its caller, from where the driver step left
\* control: returned, True, or the exception raised
CallResult ==
    CASE pc = "loop_top" -> "returned"
      [] pc = "limit_check" -> "True"
      [] pc = "retry_sleep" -> "CameraError"
      [] pc = "finally" -> "returned"
      [] OTHER -> exc

\* the lifecycle state after a call: initialize makes the driver ready or, by
\* raising CameraError, closed; shutdown makes it closed; capture_image
\* leaves it as it is
LifeAfter(op, result, life) ==
    CASE op = "initialize" /\ result = "returned" -> "ready"
      [] op = "initialize" /\ result = "CameraError" -> "closed"
      [] op = "initialize" -> "interrupted"
      [] op = "shutdown" -> "closed"
      [] OTHER -> life

\* the call returns or raises to its caller
DriverReturn ==
    /\ ~call.done
    /\ \/ pc \in {"loop_top", "handlers", "limit_check", "retry_sleep",
                  "finally"}
       \/ pc = "with_exit" /\ call.op = "capture_image"
    /\ call' = [call EXCEPT !.done = TRUE, !.result = CallResult,
                            !.life = LifeAfter(call.op, CallResult, call.life)]
    /\ pc' = "idle"
    /\ exc' = "none"
    /\ UNCHANGED <<args, factory_calls, current_os, driver, driverHist,
                   counters, exit_code, files, loopHist, shutdown_calls,
                   endHist, stop_reason, snap>>

DriverNext ==
    \/ FactoryCall
    \/ DriverCall
    \/ InitOpenFirst
    \/ InitBackoff
    \/ InitOpenSecond
    \/ InitWarmUp
    \/ InitializePi
    \/ MacCaptureRead
    \/ MacCaptureWrite
    \/ PiCaptureImage
    \/ DriverShutdown
    \/ DriverReturn

DriverSpec == DriverInit /\ [][DriverNext]_vars

\* ---------------------------------------------------------------- claims

LoopPositions == {"loop_top", "capture", "write", "limit_check", "sleep",
                  "retry_sleep"}
AttemptPositions == {"capture", "write"}
Cancellations == {"sleep_interrupt", "retry_sleep_interrupt",
                  "capture_interrupt"}
\* main has passed the pre-flight checks and entered its try statement
Guarded == interval_ok /\ current_os \in {"macos", "linux"}
          /\ pc \notin {"validate", "detect"}

\* C1: in every session in which main obtained a driver, shutdown has been
\* invoked exactly once when the process ends, however the session ended
\* (limit, error - a failing initialize included - or KeyboardInterrupt).
C1_ShutdownExactlyOnce ==
    /\ shutdown_calls <= 1
    /\ (pc = "exited" /\ camera # "None") => shutdown_calls = 1

\* C2: for a limit L > 0 there are never more than L successful captures,
\* once the count is L the loop is at its limit check or left (no sleep, no
\* further attempt), and with L = 1 and no failure capture_image is called
\* exactly once.
C2_LimitRespected ==
    limit > 0 =>
        /\ capture_count <= limit
        /\ Len(captured) <= limit
        /\ pc \in AttemptPositions => Len(captured) < limit
        /\ Len(captured) >= limit =>
              pc \notin {"loop_top", "capture", "write", "sleep", "retry_sleep"}
        /\ (pc = "exited" /\ limit = 1 /\ failures = 0 /\ stop_reason = "limit")
              => capture_calls = 1

C2_Witness ==
    /\ pc = "exited" /\ limit = 1 /\ failures = 0 /\ stop_reason = "limit"
    /\ capture_calls = 1 /\ Len(captured) = 1 /\ sleeps = 0

\* C3: at every point the images reported as captured are exactly numbers
\* 1..N in order, N the current success count, each named with a 5-digit
\* zero-padded number; an attempt always targets number count + 1.
C3_ContiguousNumbers ==
    /\ captured = [i \in 1..capture_count |-> Filename(i)]
    /\ \A i \in 1..Len(captured) :
          /\ Len(Format05d(i)) = 5
          /\ \A j \in 1..Len(captured) : captured[i] = captured[j] => i = j
    /\ pc \in AttemptPositions => image_number = Len(captured) + 1
    /\ camera = "MacCamera" =>
          /\ \A i \in 1..Len(captured) : captured[i] \in files
          /\ files \subseteq {Filename(i) : i \in 1..(Len(captured) + 1)}

C3_Witness ==
    /\ failures > 0 /\ Len(captured) = 2
    /\ captured = <<Filename(1), Filename(2)>>
    /\ Filename(2) = <<"image_", "0", "0", "0", "0", "2", ".jpg">>

\* C4: a capture attempt that raises CameraError does not end the session:
\* the count is unchanged, the interval is slept before the next attempt,
\* the next attempt targets the same number; a run with limit 2 that stops
\* by the limit has captured images 1 and 2 whatever attempts failed.
C4_CameraErrorRetries ==
    /\ pc = "retry_sleep" =>
          /\ exit_code = -1 /\ stop_reason = "none" /\ exc = "none"
          /\ last_failed = image_number
          /\ capture_count = Len(captured)
    /\ (pc \in AttemptPositions /\ last_failed # 0) =>
          /\ image_number = last_failed
          /\ capture_count = Len(captured)
    /\ pc = "capture" => sleeps = capture_calls
    /\ (pc = "exited" /\ limit = 2 /\ stop_reason = "limit")
          => captured = <<Filename(1), Filename(2)>>

C4_Witness ==
    /\ pc = "exited" /\ limit = 2 /\ stop_reason = "limit"
    /\ failures >= 1 /\ capture_calls = 2 + failures
    /\ captured = <<Filename(1), Filename(2)>>

\* C5: with limit 0 the limit exit is never taken, whatever the number of
\* successful captures; the loop is only left by a cancellation (or by an
\* exception that is not a CameraError).
C5_NoLimitNeverStops ==
    limit = 0 =>
        /\ stop_reason # "limit"
        /\ (pc \notin LoopPositions /\ capture_calls > 0)
              => stop_reason \in Cancellations \cup {"unexpected"}

C5_Witness ==
    /\ limit = 0 /\ Len(captured) = MaxCaptures
    /\ pc = "exited" /\ stop_reason = "sleep_interrupt"

\* C6: a KeyboardInterrupt during the sleep between captures ends the loop:
\* no capture attempt follows, the count and the captured images stay as
\* they were, the device is shut down and the process exits with code 0.
C6_SleepCancellation ==
    stop_reason \in {"sleep_interrupt", "retry_sleep_interrupt"} =>
        /\ pc \notin LoopPositions
        /\ capture_calls = snap.calls
        /\ capture_count = snap.count
        /\ captured = snap.captured
        /\ files = snap.files
        /\ pc \in {"handlers", "finally", "compile", "exit", "exited"}
              => shutdown_calls = 1 /\ capture = "None"
        /\ pc = "exited" => exit_code = 0

C6_Witness ==
    /\ stop_reason = "sleep_interrupt" /\ pc = "exited"
    /\ Len(captured) >= 1 /\ shutdown_calls = 1 /\ exit_code = 0

\* C7: an exception that is neither CameraError nor KeyboardInterrupt is
\* caught at the top level, the device is shut down and the process ends
\* with a non-zero exit code.
C7_UnexpectedErrorExitsNonZero ==
    (stop_reason = "unexpected" /\ pc = "exited")
        => shutdown_calls = 1 /\ exit_code # 0

\* C8: if initialize fails with CameraError no capture attempt is ever
\* made, the success count stays 0 and the process exits with code 1.
C8_InitFailureIsFatal ==
    stop_reason = "init_error" =>
        /\ pc \notin LoopPositions
        /\ capture_calls = 0 /\ capture_count = 0 /\ images_captured = 0
        /\ captured = <<>> /\ files = {}
        /\ pc = "exited" => exit_code = 1

C8_Witness ==
    /\ stop_reason = "init_error" /\ pc = "exited" /\ exit_code = 1
    /\ open_attempts = 2

\* C9: once main is in its guarded region the summary (DONE) runs exactly
\* once on every way the run ends, and the total it prints is the number of
\* capture_image calls that returned success.
C9_DoneExactlyOnce ==
    /\ done_runs <= 1
    /\ pc \in {"compile", "exit"} => done_runs = 1
    /\ (pc = "exited" /\ Guarded) =>
          /\ done_runs = 1
          /\ reported_total = Len(captured)
    /\ done_runs = 1 => reported_total = Len(captured)

C9_Witness ==
    /\ pc = "exited" /\ Guarded /\ stop_reason = "init_error"
    /\ done_runs = 1 /\ reported_total = 0 /\ exit_code = 1

\* C10: a session that ends with 0 captured images never invokes the
\* encoder and never calls the video compilation, --compile-video or not.
C10_NoImagesNoVideo ==
    (Len(captured) = 0 /\ pc \in {"compile", "exit", "exited"}) =>
        /\ pc # "compile"
        /\ encoder_calls = 0
        /\ compile_result = "none"

C10_Witness ==
    /\ pc = "exited" /\ compile_video /\ camera # "None"
    /\ Len(captured) = 0 /\ done_runs = 1 /\ capture_calls > 0
    /\ encoder_calls = 0

\* C11: a failed video compilation does not fail the capture session: the
\* success count and the captured images are what they were before the
\* call, and the exit code is 0 as after a successful compilation.
C11_CompileFailureNotFatal ==
    (compile_log.called /\ compile_result = "False") =>
        /\ exc = "none"
        /\ capture_count = compile_log.before.count
        /\ captured = compile_log.before.captured
        /\ files = compile_log.before.files
        /\ reported_total = Len(captured)
        /\ pc = "exited" => exit_code = 0

C11_Witness ==
    /\ pc = "exited" /\ compile_result = "False" /\ exit_code = 0
    /\ compile_log.called /\ compile_log.started /\ compile_log.returncode = 1
    /\ Len(captured) = 2

\* C12: when ffmpeg is not on the search path compile_video_ffmpeg returns
\* False and has done nothing else: no directory created, no child process
\* started, no output file.
C12_MissingEncoderDoesNothing ==
    (compile_log.called /\ compile_log.which = "None") =>
        /\ compile_result = "False"
        /\ ~compile_log.made_dir
        /\ ~compile_log.started
        /\ ~compile_log.output
        /\ encoder_calls = 0

C12_Witness ==
    /\ compile_log.called /\ compile_log.which = "None"
    /\ ~compile_log.dir_exists /\ compile_log.run = "exit_zero"
    /\ compile_result = "False" /\ encoder_calls = 0

\* C13: compile_video_ffmpeg returns True exactly when the child process ran
\* and exited with code 0; a missing binary, a directory that cannot be
\* created, a non-zero exit code and an exception of subprocess.run all give
\* the value False, and no exception reaches the caller.
C13_SuccessIffExitZero ==
    /\ compile_log.called =>
          /\ compile_result \in {"True", "False"}
          /\ compile_result = "True" <=>
                (compile_log.started /\ compile_log.returncode = 0)
          /\ compile_log.run = "exit_nonzero" => compile_result = "False"
          /\ compile_log.run \in {"FileNotFoundError", "Exception"}
                => compile_result = "False"
          /\ exc = "none"
          /\ encoder_calls <= 1
    /\ (pc \in {"exit", "exited"} /\ compile_result # "none")
          => compile_log.called

C13_Witness ==
    /\ compile_log.called /\ compile_log.run = "exit_nonzero"
    /\ compile_log.which # "None" /\ compile_log.started
    /\ compile_result = "False" /\ pc = "exited"

\* C14: get_camera maps a platform identifier to exactly one variant: "macos",
\* or "auto" on a darwin host, gives MacCamera; "linux", or "auto" on a host
\* whose platform starts with linux, gives PiCamera; any other explicit
\* identifier raises ValueError; "auto" on any other host raises CameraError;
\* in the failing cases no driver exists.
C14_FactoryMapsPlatform ==
    factory_calls # <<>> =>
        /\ factory_calls = <<[os_type |-> current_os, config |-> "{}"]>>
        /\ camera \in {"None", "MacCamera", "PiCamera"}
        /\ (current_os = "macos"
              \/ (current_os = "auto" /\ sys_platform = Darwin))
             => camera = "MacCamera"
        /\ (current_os = "linux"
              \/ (current_os = "auto" /\ sys_platform \in {Linux, Linux2}))
             => camera = "PiCamera"
        /\ current_os \notin {"auto", "macos", "linux"}
             => /\ camera = "None"
                /\ call.result = "ValueError"
                /\ pc = "factory_failed"
                /\ open_attempts = 0
        /\ (current_os = "auto"
              /\ sys_platform \in {Win32, Cygwin, FreeBsd11})
             => /\ camera = "None"
                /\ call.result = "CameraError"
                /\ pc = "factory_failed"
                /\ open_attempts = 0

C14_Witness ==
    /\ current_os = "auto" /\ sys_platform = Cygwin
    /\ Len(factory_calls) = 1
    /\ call.op = "get_camera" /\ call.result = "CameraError"
    /\ camera = "None" /\ pc = "factory_failed"

\* C15 as stated: detection gives "macos" for darwin, "linux" for a platform
\* string that starts with linux and "unsupported" otherwise; on
\* "unsupported" main exits with code 1 and never calls get_camera; otherwise
\* main calls get_camera exactly once, with the detected platform and {}.
C15_AsStated ==
    /\ current_os = "macos" => sys_platform = Darwin
    /\ current_os = "linux" => sys_platform \in {Linux, Linux2}
    /\ current_os = "unsupported" => sys_platform \in {Win32, Cygwin, FreeBsd11}
    /\ current_os = "unsupported"
          => pc = "exited" /\ exit_code = 1 /\ factory_calls = <<>>
    /\ (pc = "exited" /\ current_os \in {"macos", "linux"})
          => factory_calls = <<[os_type |-> current_os, config |-> "{}"]>>

\* C15 (amended): detection as above; on "unsupported" main exits with code 1
\* and never calls get_camera; otherwise main calls get_camera at most once,
\* and exactly once, with the detected platform and {}, when the output
\* directory could be created; when os.makedirs fails it is never called.
C15_PlatformDetection ==
    /\ current_os = "macos" => sys_platform = Darwin
    /\ current_os = "linux" => sys_platform \in {Linux, Linux2}
    /\ current_os = "unsupported" => sys_platform \in {Win32, Cygwin, FreeBsd11}
    /\ current_os = "unsupported"
          => pc = "exited" /\ exit_code = 1 /\ factory_calls = <<>>
    /\ Len(factory_calls) <= 1
    /\ stop_reason = "makedirs_error" => factory_calls = <<>>
    /\ (pc = "exited" /\ current_os \in {"macos", "linux"}
          /\ stop_reason # "makedirs_error")
          => factory_calls = <<[os_type |-> current_os, config |-> "{}"]>>

C15_Witness ==
    /\ pc = "exited" /\ sys_platform = Linux2 /\ current_os = "linux"
    /\ factory_calls = <<[os_type |-> "linux", config |-> "{}"]>>
    /\ camera = "PiCamera"

\* C16: when interval <= 0, or when the output directory cannot be created,
\* the process exits with code 1 and the driver is never constructed,
\* initialized or asked to capture.
C16_PreflightFailureIsFatal ==
    (~interval_ok \/ stop_reason = "makedirs_error") =>
        /\ factory_calls = <<>>
        /\ camera = "None"
        /\ open_attempts = 0
        /\ capture = "None"
        /\ capture_calls = 0
        /\ files = {}
        /\ encoder_calls = 0
        /\ pc \in {"validate", "handlers", "finally", "exit", "exited"}
        /\ pc = "exited" => exit_code = 1

C16_Witness ==
    /\ pc = "exited" /\ stop_reason = "makedirs_error"
    /\ current_os = "macos" /\ compile_video
    /\ exit_code = 1 /\ factory_calls = <<>>

\* C17 as stated: a KeyboardInterrupt ends the session only at the sleep
\* between captures, at the waits of initialize and at the top of the loop;
\* every capture_image call that started has completed, with success or
\* with CameraError, before a cancellation ends the session.
C17_AsStated ==
    stop_reason \in {"sleep_interrupt", "retry_sleep_interrupt",
                     "init_interrupt", "capture_interrupt"} =>
        /\ stop_reason # "capture_interrupt"
        /\ capture_calls = Len(captured) + failures

\* C17 (amended): a KeyboardInterrupt ends the session at the sleeps between
\* captures, at the waits of initialize, and also inside capture_image, once
\* the frame read or the image write in progress has returned.  In the last
\* case the call is abandoned: it is not counted, at most one image file on
\* disk is not counted either, the device is shut down and the process
\* exits with code 0.
C17_CancellationPoints ==
    /\ exc = "KeyboardInterrupt"
          => stop_reason \in {"init_interrupt", "retry_sleep_interrupt",
                              "capture_interrupt"}
    /\ stop_reason \in {"sleep_interrupt", "retry_sleep_interrupt",
                        "init_interrupt"}
          => capture_calls = Len(captured) + failures
    /\ stop_reason = "capture_interrupt" =>
          /\ camera = "MacCamera"
          /\ pc \notin LoopPositions
          /\ capture_calls = Len(captured) + failures + 1
          /\ capture_count = snap.count
          /\ captured = snap.captured
          /\ images_captured = Len(captured)
          /\ image_number = capture_count + 1
          /\ files \subseteq ({captured[i] : i \in 1..Len(captured)}
                                \cup {Filename(image_number)})
          /\ pc \in {"handlers", "finally", "compile", "exit", "exited"}
                => shutdown_calls = 1 /\ capture = "None" /\ live_handles = 0
          /\ pc = "exited" => exit_code = 0 /\ done_runs = 1

C17_Witness ==
    /\ stop_reason = "capture_interrupt" /\ pc = "exited"
    /\ Len(captured) = 1
    /\ files = {Filename(1), Filename(2)}
    /\ reported_total = 1 /\ exit_code = 0

C19_ShutdownIdempotent ==
    /\ live_handles >= 0
    /\ (call.op = "shutdown" /\ call.done) =>
          /\ call.result = "returned"
          /\ call.life = "closed"
          /\ capture = "None"
          /\ ~opened
          /\ live_handles = 0
          /\ release_calls - call.before.release_calls =
                (IF call.before.capture # "None" /\ call.before.opened
                   THEN 1 ELSE 0)
          /\ live_handles = call.before.live_handles
                              - (release_calls - call.before.release_calls)
          /\ files = call.before.files
    /\ (call.op = "shutdown" /\ call.done
          /\ call.before.life \in {"unopened", "closed"}) =>
          /\ release_calls = call.before.release_calls
          /\ capture = call.before.capture
          /\ opened = call.before.opened

C19_Witness ==
    /\ camera = "MacCamera" /\ call.op = "shutdown" /\ call.done
    /\ call.before.life = "closed" /\ shutdown_calls = 2
    /\ open_attempts = 1 /\ release_calls = 1
    /\ call.result = "returned"

C21_EncoderAfterShutdown ==
    /\ encoder_calls <= 1
    /\ encoder_calls = 1 => compile_log.called /\ compile_log.started
    /\ (pc = "compile" \/ compile_log.called) =>
          /\ pc \notin LoopPositions
          /\ pc \notin {"get_camera", "init_open1", "init_backoff",
                        "init_open2", "init_warmup", "init_pi", "with_exit"}
          /\ shutdown_calls = 1
          /\ capture = "None" /\ ~opened /\ live_handles = 0
    /\ compile_log.called =>
          /\ pc \in {"exit", "exited"}
          /\ capture_calls = compile_log.before.calls
          /\ captured = compile_log.before.captured
          /\ files = compile_log.before.files

C21_Witness ==
    /\ pc = "exited" /\ camera = "MacCamera"
    /\ encoder_calls = 1 /\ compile_log.started
    /\ open_attempts = 2 /\ shutdown_calls = 1
    /\ capture_calls = 3 /\ Len(captured) = 2

\* C22: with --compile-video and at least one captured image the video
\* compilation is called on every way main ends - the limit, a
\* KeyboardInterrupt during a sleep or a capture, an unexpected exception -
\* and it starts ffmpeg whenever ffmpeg is on the path, the output
\* directory exists or could be created and subprocess.run does not raise.
C22_CompileOnEveryExit ==
    (pc \in {"exit", "exited"} /\ compile_video /\ images_captured > 0) =>
        /\ done_runs = 1
        /\ stop_reason \in {"limit", "sleep_interrupt",
                            "retry_sleep_interrupt", "capture_interrupt",
                            "unexpected"}
        /\ compile_log.called
        /\ compile_result \in {"True", "False"}
        /\ compile_log.before.captured = captured
        /\ (compile_log.which # "None"
              /\ (compile_log.dir_exists \/ compile_log.made_dir)
              /\ compile_log.run \in {"exit_zero", "exit_nonzero"})
             => compile_log.started /\ encoder_calls = 1

C22_Witness ==
    /\ pc = "exited" /\ compile_video /\ stop_reason = "unexpected"
    /\ Len(captured) = 1 /\ failures = 1
    /\ compile_log.called /\ encoder_calls = 1 /\ compile_result = "True"

\* C23: with a limit L > 0, once the loop has started and unless a
\* KeyboardInterrupt or an unexpected exception (see C7) ends it, the run
\* reaches its end with exactly L captured images and exit code 0, after any
\* finite number of attempts that raised CameraError; and the number of
\* failures never ends the loop: after a failed attempt and its sleep main is
\* back at the top of the loop, and below the limit the top of the loop always
\* goes on to the next attempt.
C23_LimitedSessionTerminates ==
    /\ (limit > 0 /\ pc = "loop_top")
          ~> (/\ pc = "exited"
              /\ stop_reason \notin {"sleep_interrupt", "retry_sleep_interrupt",
                                     "capture_interrupt", "unexpected"}
                    => /\ stop_reason = "limit"
                       /\ Len(captured) = limit
                       /\ images_captured = limit
                       /\ done_runs = 1
                       /\ exit_code = 0)
    /\ [][(pc = "retry_sleep" /\ pc' # "retry_sleep")
             => (pc' = "loop_top"
                   \/ (pc' = "with_exit"
                         /\ stop_reason' = "retry_sleep_interrupt"))]_vars
    /\ [][(pc = "loop_top" /\ limit > 0 /\ capture_count < limit)
             => (pc' = "capture" /\ failures' = failures)]_vars

C23_Witness ==
    /\ pc = "exited" /\ stop_reason = "limit" /\ limit = MaxLimit
    /\ failures = MaxFailures /\ capture_calls = MaxLimit + MaxFailures
    /\ Len(captured) = limit /\ exit_code = 0

====
